---- MODULE Spec2Model ----
(***************************************************************************)
(* Model of the MIDI controller protocol of Linux Show Player              *)
(* (lisp/plugins/controller/protocols/midi.py) with the APC mini device    *)
(* tables (lisp/plugins/controller/devices/apc_midi_mk1.py).               *)
(*                                                                         *)
(* Every handler runs to completion (single-threaded, callback driven), so *)
(* each handler is one action.  A handler is written as an operator that   *)
(* maps the state it reads to the state it leaves and to the ordered list  *)
(* of external effects ("fx") it produced: messages handed to the MIDI     *)
(* output, strings emitted on protocol_event, calls on the layout.         *)
(***************************************************************************)
EXTENDS Integers, Sequences, FiniteSets, TLC

(***************************************************************************)
(* Bounds of the model.                                                    *)
(***************************************************************************)
MaxSteps == 3

(***************************************************************************)
(* apc_midi_mk1.py: ApcButtonRange, the colour tables, note_in_range.      *)
(***************************************************************************)
PushButton == <<0, 63>>
BottomSide == <<64, 71>>
RightSide == <<82, 89>>
Shift == <<98, 98>>
Faders == <<48, 56>>

ApcSideButtonColor == [Off |-> 0, On |-> 1, Blink |-> 2]

ApcPushButtonColor ==
    [Off |-> 0, Green |-> 1, GreenBlink |-> 2, Red |-> 3, RedBlink |-> 4,
     Yellow |-> 5, YellowBlink |-> 6]

note_in_range(note, button_range) ==
    button_range[1] <= note /\ note <= button_range[2]

(***************************************************************************)
(* midi.py, module level: the controls of the shift layer.                 *)
(***************************************************************************)
previous_page_button == BottomSide[1] + 2
next_page_button == BottomSide[1] + 3
stop_all_button == RightSide[2]
shift_button == Shift[1]

(***************************************************************************)
(* Inbound messages (mido.Message values delivered by the MIDI input).     *)
(* A message is a record; only note messages have the velocity attribute.  *)
(***************************************************************************)
Channels == {0, 1}
Notes == {40, previous_page_button, next_page_button, stop_all_button,
          shift_button}
Velocities == {0, 100}
Controls == {48, 49, 56}
Values == {0, 127}

NoteMessages ==
    [type : {"note_on", "note_off"}, channel : Channels, note : Notes,
     velocity : Velocities]

ControlMessages ==
    [type : {"control_change"}, channel : Channels, control : Controls,
     value : Values]

ProgramMessages == [type : {"program_change"}, channel : Channels, program : {5}]

Messages == NoteMessages \cup ControlMessages \cup ProgramMessages

\* hasattr(message, name)
hasattr(message, name) == name \in DOMAIN message

\* message.copy(velocity=0)
copy_velocity(message, v) == [message EXCEPT !.velocity = v]

\* str(message): the type followed by the values of the message's
\* attributes in mido's order, the time (always 0 on input) last.
str(message) ==
    CASE message.type \in {"note_on", "note_off"} ->
           <<message.type, "channel", message.channel, "note", message.note,
             "velocity", message.velocity, "time", 0>>
      [] message.type = "control_change" ->
           <<message.type, "channel", message.channel, "control",
             message.control, "value", message.value, "time", 0>>
      [] OTHER ->
           <<message.type, "channel", message.channel, "program",
             message.program, "time", 0>>

(***************************************************************************)
(* The application the handler reaches through Application(): the active   *)
(* layout and the cues it shows.                                           *)
(***************************************************************************)
Layouts == {"CartLayout", "ListLayout"}

CueIds == {"c1", "c2", "c3", "c4"}

\* column of each cue in the cart, whether it is a MediaCue, and whether
\* its media has a "Volume" element
CueColumn == [c \in CueIds |-> IF c \in {"c1", "c2"} THEN 0 ELSE 1]
CueIsMedia == [c \in CueIds |-> c # "c3"]
CueHasVolume == [c \in CueIds |-> c \in {"c1", "c4"}]

\* order in which the layout lists its cues
CueOrder == <<"c1", "c2", "c3", "c4">>

\* layout.cues_at_column(column, MediaCue)
InColumn(c, column) == CueColumn[c] = column /\ CueIsMedia[c]
cues_at_column(column) ==
    LET Pick[i \in 0..Len(CueOrder)] ==
            IF i = 0 THEN <<>>
            ELSE IF InColumn(CueOrder[i], column)
                 THEN Append(Pick[i - 1], CueOrder[i])
                 ELSE Pick[i - 1]
    IN Pick[Len(CueOrder)]

(***************************************************************************)
(* The stored bindings of the cues: cue.controller.get('midi', []) is a    *)
(* list of (key, action) pairs, the key being the str of a message.  A key *)
(* is kept in the form str gives; BadKey is a key the codec cannot parse.  *)
(***************************************************************************)
NoteKey(note) ==
    <<"note_on", "channel", 0, "note", note, "velocity", 0, "time", 0>>
ControlKey == <<"control_change", "channel", 0, "control", 7, "value", 127,
                "time", 0>>
BadKey == <<"note_on", "channel", 0, "note">>

CueController ==
    [c \in CueIds |->
        CASE c = "c1" -> <<<<NoteKey(40), "Start">>, <<NoteKey(64), "Stop">>>>
          [] c = "c2" -> <<<<ControlKey, "Start">>, <<NoteKey(41), "Stop">>>>
          [] c = "c3" -> <<<<NoteKey(89), "Start">>, <<NoteKey(63), "Stop">>,
                           <<NoteKey(0), "Pause">>>>
          [] OTHER -> <<<<BadKey, "Start">>, <<NoteKey(42), "Stop">>>>]

\* the flags of cue.state that the handler tests with CueState.IsRunning,
\* CueState.IsPaused and CueState.IsStopped; they may combine
CueStates == SUBSET {"IsRunning", "IsPaused", "IsStopped"}

\* midi_from_str: the inverse of str, defined on the keys it can parse
can_parse(key) ==
    /\ Len(key) = 9
    /\ key[1] \in {"note_on", "note_off", "control_change"}

midi_from_str(key) ==
    IF key[1] = "control_change"
    THEN [type |-> key[1], channel |-> key[3], control |-> key[5],
          value |-> key[7]]
    ELSE [type |-> key[1], channel |-> key[3], note |-> key[5],
          velocity |-> key[7]]

VARIABLES
    shift,        \* Midi._shift
    open,         \* Midi._midi_output.is_open()
    layout,       \* class of Application().layout
    live_volume,  \* cue -> numerator of volume.live_volume (value / 127)
    out,          \* every message handed to Midi._midi_output.send, in order
    fx,           \* effects of the handler that ran last, in order
    last,         \* the event handled last and the state it found
    steps,        \* number of handlers run
    connected,    \* cue_model.status_changed is connected to the handler
    stop_since    \* stop_all was called since shift was last switched

vars == <<shift, open, layout, live_volume, out, fx, last, steps, connected,
          stop_since>>

(***************************************************************************)
(* Effects.                                                                *)
(***************************************************************************)
Send(key, color) ==
    [kind |-> "send",
     msg |-> [type |-> "note_on", channel |-> 0, note |-> key,
              velocity |-> color]]
Emit(text) == [kind |-> "emit", text |-> text]
Call(name) == [kind |-> "call", name |-> name]
SetVolume(cue, value) == [kind |-> "live_volume", cue |-> cue, value |-> value]
\* an exception leaves the handler
Raise(error) == [kind |-> "raise", error |-> error]

\* the colour mapper that section 4.1 of the specification describes; the
\* source has no such function
mapColor(id, color) ==
    IF note_in_range(id, PushButton) THEN color
    ELSE IF color = 0 THEN 0
    ELSE (color % 3) + 1

\* faulty variant: the colour is folded for the controls outside PushButton
send_feedback_fold(op, key, color) ==
    IF op THEN <<Send(key, mapColor(key, color))>> ELSE <<>>

\* faulty variant: the message is sent without asking is_open
send_feedback_always(op, key, color) == <<Send(key, color)>>

\* Midi._send_feedback(key, color)
send_feedback(op, key, color) ==
    IF op THEN <<Send(key, color)>> ELSE <<>>

\* faulty variant: the first indicator is taken from the wrong end of RightSide
enable_shift_mode_first(sh, op) ==
    IF sh
    THEN [shift |-> sh, fx |-> <<>>]
    ELSE [shift |-> TRUE,
          fx |-> send_feedback(op, RightSide[1], ApcSideButtonColor.On)
                 \o send_feedback(op, previous_page_button, ApcSideButtonColor.On)
                 \o send_feedback(op, next_page_button, ApcSideButtonColor.On)]

\* Midi._enable_shift_mode
enable_shift_mode(sh, op) ==
    IF sh
    THEN [shift |-> sh, fx |-> <<>>]
    ELSE [shift |-> TRUE,
          fx |-> send_feedback(op, RightSide[2], ApcSideButtonColor.On)
                 \o send_feedback(op, previous_page_button, ApcSideButtonColor.On)
                 \o send_feedback(op, next_page_button, ApcSideButtonColor.On)]

\* faulty variant: the next-page indicator is left lit
disable_shift_mode_two(sh, op) ==
    IF ~sh
    THEN [shift |-> sh, fx |-> <<>>]
    ELSE [shift |-> FALSE,
          fx |-> send_feedback(op, RightSide[2], ApcSideButtonColor.Off)
                 \o send_feedback(op, previous_page_button, ApcSideButtonColor.Off)]

\* Midi._disable_shift_mode
disable_shift_mode(sh, op) ==
    IF ~sh
    THEN [shift |-> sh, fx |-> <<>>]
    ELSE [shift |-> FALSE,
          fx |-> send_feedback(op, RightSide[2], ApcSideButtonColor.Off)
                 \o send_feedback(op, previous_page_button, ApcSideButtonColor.Off)
                 \o send_feedback(op, next_page_button, ApcSideButtonColor.Off)]

\* faulty variant: the note of the message is not looked at
is_shift_press_any(sh, message) == ~sh /\ message.type = "note_on"

\* Midi.__new_message, the condition of the shift-activation branch
is_shift_press(sh, message) ==
    ~sh /\ message.type = "note_on" /\ message.note = shift_button

\* faulty variant: the type of the message is not looked at
is_shift_release_any(sh, message) ==
    sh /\ hasattr(message, "note") /\ message.note = shift_button

\* Midi.__new_message, the condition of the shift-deactivation branch
is_shift_release(sh, message) ==
    sh /\ message.type = "note_off" /\ message.note = shift_button

\* faulty variant: the page branches return only under a cart layout
shift_layer_cart(sh, message, op, lay) ==
    IF sh /\ message.type = "note_on"
    THEN IF message.note = stop_all_button
         THEN [returns |-> TRUE,
               fx |-> <<Call("stop_all")>>
                      \o send_feedback(op, stop_all_button,
                                       ApcSideButtonColor.Blink)]
         ELSE IF message.note = previous_page_button /\ lay = "CartLayout"
         THEN [returns |-> TRUE, fx |-> <<Call("select_previous_page")>>]
         ELSE IF message.note = next_page_button /\ lay = "CartLayout"
         THEN [returns |-> TRUE, fx |-> <<Call("select_next_page")>>]
         ELSE [returns |-> FALSE, fx |-> <<>>]
    ELSE [returns |-> FALSE, fx |-> <<>>]

\* faulty variant: the feedback is sent before stop_all is called
shift_layer_early(sh, message, op, lay) ==
    IF sh /\ message.type = "note_on"
    THEN IF message.note = stop_all_button
         THEN [returns |-> TRUE,
               fx |-> send_feedback(op, stop_all_button,
                                    ApcSideButtonColor.Blink)
                      \o <<Call("stop_all")>>]
         ELSE IF message.note = previous_page_button
         THEN [returns |-> TRUE,
               fx |-> IF lay = "CartLayout"
                      THEN <<Call("select_previous_page")>> ELSE <<>>]
         ELSE IF message.note = next_page_button
         THEN [returns |-> TRUE,
               fx |-> IF lay = "CartLayout"
                      THEN <<Call("select_next_page")>> ELSE <<>>]
         ELSE [returns |-> FALSE, fx |-> <<>>]
    ELSE [returns |-> FALSE, fx |-> <<>>]

\* faulty variant: note_off messages are taken for commands too
shift_layer_off(sh, message, op, lay) ==
    IF sh /\ hasattr(message, "note")
    THEN IF message.note = stop_all_button
         THEN [returns |-> TRUE,
               fx |-> <<Call("stop_all")>>
                      \o send_feedback(op, stop_all_button,
                                       ApcSideButtonColor.Blink)]
         ELSE IF message.note = previous_page_button
         THEN [returns |-> TRUE,
               fx |-> IF lay = "CartLayout"
                      THEN <<Call("select_previous_page")>> ELSE <<>>]
         ELSE IF message.note = next_page_button
         THEN [returns |-> TRUE,
               fx |-> IF lay = "CartLayout"
                      THEN <<Call("select_next_page")>> ELSE <<>>]
         ELSE [returns |-> FALSE, fx |-> <<>>]
    ELSE [returns |-> FALSE, fx |-> <<>>]

\* Midi.__new_message, the shift-layer commands: whether the message is
\* consumed (the branch returns) and the effects of the branch
shift_layer(sh, message, op, lay) ==
    IF sh /\ message.type = "note_on"
    THEN IF message.note = stop_all_button
         THEN [returns |-> TRUE,
               fx |-> <<Call("stop_all")>>
                      \o send_feedback(op, stop_all_button,
                                       ApcSideButtonColor.Blink)]
         ELSE IF message.note = previous_page_button
         THEN [returns |-> TRUE,
               fx |-> IF lay = "CartLayout"
                      THEN <<Call("select_previous_page")>> ELSE <<>>]
         ELSE IF message.note = next_page_button
         THEN [returns |-> TRUE,
               fx |-> IF lay = "CartLayout"
                      THEN <<Call("select_next_page")>> ELSE <<>>]
         ELSE [returns |-> FALSE, fx |-> <<>>]
    ELSE [returns |-> FALSE, fx |-> <<>>]

\* faulty variant: a cue without a Volume element is updated too
fader_updates_all(message) ==
    LET column == message.control - Faders[1]
        cues == cues_at_column(column)
    IN [i \in 1..Len(cues) |-> SetVolume(cues[i], message.value)]

\* Midi.__new_message, the loop over the cues of the fader's column; the
\* volume is value / 127, kept as its numerator
fader_updates(message) ==
    LET column == message.control - Faders[1]
        cues == cues_at_column(column)
        Upd[i \in 0..Len(cues)] ==
            IF i = 0 THEN <<>>
            ELSE IF CueHasVolume[cues[i]]
                 THEN Append(Upd[i - 1], SetVolume(cues[i], message.value))
                 ELSE Upd[i - 1]
    IN Upd[Len(cues)]

\* faulty variant: the master fader is looked for at the lower end of Faders
fader_routing_low(message, lay) ==
    IF message.type = "control_change"
    THEN IF message.control = Faders[1]
         THEN [returns |-> TRUE, fx |-> <<>>]
         ELSE IF lay = "CartLayout"
         THEN [returns |-> FALSE, fx |-> fader_updates(message)]
         ELSE [returns |-> FALSE, fx |-> <<>>]
    ELSE [returns |-> FALSE, fx |-> <<>>]

\* faulty variant: the layout is not looked at
fader_routing_any(message, lay) ==
    IF message.type = "control_change"
    THEN IF message.control = Faders[2]
         THEN [returns |-> TRUE, fx |-> <<>>]
         ELSE [returns |-> FALSE, fx |-> fader_updates(message)]
    ELSE [returns |-> FALSE, fx |-> <<>>]

\* Midi.__new_message, the control_change branch
fader_routing(message, lay) ==
    IF message.type = "control_change"
    THEN IF message.control = Faders[2]
         THEN [returns |-> TRUE, fx |-> <<>>]
         ELSE IF lay = "CartLayout"
         THEN [returns |-> FALSE, fx |-> fader_updates(message)]
         ELSE [returns |-> FALSE, fx |-> <<>>]
    ELSE [returns |-> FALSE, fx |-> <<>>]

\* faulty variant: the velocity is left as it came
echo_raw(message) == <<Emit(str(message))>>

\* faulty variant: only the messages that have a velocity are emitted
echo_notes(message) ==
    IF hasattr(message, "velocity")
    THEN <<Emit(str(copy_velocity(message, 0)))>>
    ELSE <<>>

\* Midi.__new_message, the tail: velocity zeroed, then protocol_event.emit
echo(message) ==
    LET m == IF hasattr(message, "velocity")
             THEN copy_velocity(message, 0) ELSE message
    IN <<Emit(str(m))>>

\* Midi.__new_message: the shift flag it leaves and its effects in order
new_message(message, sh, op, lay) ==
    IF is_shift_press(sh, message)
    THEN enable_shift_mode(sh, op)
    ELSE IF is_shift_release(sh, message)
    THEN disable_shift_mode(sh, op)
    ELSE LET layer == shift_layer(sh, message, op, lay)
             fader == fader_routing(message, lay)
         IN IF layer.returns
            THEN [shift |-> sh, fx |-> layer.fx]
            ELSE IF fader.returns
            THEN [shift |-> sh, fx |-> layer.fx \o fader.fx]
            ELSE [shift |-> sh,
                  fx |-> layer.fx \o fader.fx \o echo(message)]

\* MidiSettings.loadSettings: every entry is appended to the model in its
\* own try block, an entry that raises is skipped
RECURSIVE loadSettings(_)
loadSettings(entries) ==
    IF entries = <<>>
    THEN <<>>
    ELSE IF can_parse(Head(entries)[1])
    THEN <<<<midi_from_str(Head(entries)[1]), Head(entries)[2]>>>>
         \o loadSettings(Tail(entries))
    ELSE loadSettings(Tail(entries))

\* faulty variant: the note is not compared with the PushButton range
entry_feedback_any(op, note, state) ==
    IF "IsRunning" \in state
    THEN send_feedback(op, note, ApcPushButtonColor.Green)
    ELSE IF "IsPaused" \in state
    THEN send_feedback(op, note, ApcPushButtonColor.GreenBlink)
    ELSE IF "IsStopped" \in state
    THEN send_feedback(op, note, ApcPushButtonColor.Yellow)
    ELSE <<>>

\* Midi.__cue_status_changed, the body of the loop once the note is known
entry_feedback(op, note, state) ==
    IF ~note_in_range(note, PushButton)
    THEN <<>>
    ELSE IF "IsRunning" \in state
    THEN send_feedback(op, note, ApcPushButtonColor.Green)
    ELSE IF "IsPaused" \in state
    THEN send_feedback(op, note, ApcPushButtonColor.GreenBlink)
    ELSE IF "IsStopped" \in state
    THEN send_feedback(op, note, ApcPushButtonColor.Yellow)
    ELSE <<>>

\* Midi.__cue_status_changed: midi_from_str(key).note is not guarded, so a
\* key that does not parse or a message without a note ends the handler
RECURSIVE cue_status_changed(_, _, _)
cue_status_changed(entries, state, op) ==
    IF entries = <<>>
    THEN <<>>
    ELSE LET key == Head(entries)[1]
         IN IF ~can_parse(key)
            THEN <<Raise("ValueError")>>
            ELSE IF ~hasattr(midi_from_str(key), "note")
            THEN <<Raise("AttributeError")>>
            ELSE entry_feedback(op, midi_from_str(key).note, state)
                 \o cue_status_changed(Tail(entries), state, op)

\* faulty variant: the shift flag is cleared when a session starts
init_clear(sh) == [shift |-> FALSE, connected |-> TRUE]

\* Midi.init: connects the cue handler; the shift flag is not touched
init(sh) == [shift |-> sh, connected |-> TRUE]

\* Midi.reset: disconnects the cue handler; the shift flag is not touched
reset(sh) == [shift |-> sh, connected |-> FALSE]

(***************************************************************************)
(* What a handler's effects do to the rest of the state.                   *)
(***************************************************************************)
RECURSIVE Sent(_)
Sent(effects) ==
    IF effects = <<>> THEN <<>>
    ELSE IF Head(effects).kind = "send"
         THEN <<Head(effects).msg>> \o Sent(Tail(effects))
         ELSE Sent(Tail(effects))

RECURSIVE ApplyVolume(_, _)
ApplyVolume(vol, effects) ==
    IF effects = <<>> THEN vol
    ELSE IF Head(effects).kind = "live_volume"
         THEN ApplyVolume([vol EXCEPT ![Head(effects).cue] = Head(effects).value],
                          Tail(effects))
         ELSE ApplyVolume(vol, Tail(effects))

(***************************************************************************)
(* Midi.__init__: shift off.  The output may be open or not, the session   *)
(* shows a cart or a list layout, every volume is at 1.0 (127 / 127).      *)
(***************************************************************************)
Init ==
    /\ shift = FALSE
    /\ open \in BOOLEAN
    /\ layout \in Layouts
    /\ live_volume = [c \in CueIds |-> 127]
    /\ out = <<>>
    /\ fx = <<>>
    /\ last = [kind |-> "none"]
    /\ steps = 0
    /\ connected = FALSE
    /\ stop_since = FALSE

\* stop_all was called by the handler
StopAllCalled(effects) ==
    \E i \in 1..Len(effects) :
        effects[i].kind = "call" /\ effects[i].name = "stop_all"

\* the MIDI input delivers a message: Midi.__new_message runs
NewMessage ==
    \E message \in Messages :
        /\ steps < MaxSteps
        /\ LET r == new_message(message, shift, open, layout)
           IN /\ shift' = r.shift
              /\ fx' = r.fx
              /\ out' = out \o Sent(r.fx)
              /\ live_volume' = ApplyVolume(live_volume, r.fx)
              /\ stop_since' = IF r.shift # shift THEN FALSE
                               ELSE stop_since \/ StopAllCalled(r.fx)
        /\ last' = [kind |-> "message", message |-> message, shift |-> shift,
                    open |-> open, live_volume |-> live_volume,
                    out |-> out]
        /\ steps' = steps + 1
        /\ UNCHANGED <<open, layout, connected>>

\* the cue model reports a state change of a cue: Midi.__cue_status_changed
\* runs, if it is connected
CueStatusChanged ==
    \E cue \in CueIds, state \in CueStates :
        /\ steps < MaxSteps
        /\ connected
        /\ fx' = cue_status_changed(CueController[cue], state, open)
        /\ out' = out \o Sent(fx')
        /\ last' = [kind |-> "cue", cue |-> cue, state |-> state,
                    shift |-> shift, open |-> open, out |-> out]
        /\ steps' = steps + 1
        /\ UNCHANGED <<shift, open, layout, live_volume, connected,
                       stop_since>>

\* a session starts: the controller plugin calls Midi.init
SessionInit ==
    /\ ~connected
    /\ shift' = init(shift).shift
    /\ connected' = init(shift).connected
    /\ fx' = <<>>
    /\ last' = [kind |-> "init", shift |-> shift, out |-> out,
                prior |-> last.kind]
    /\ UNCHANGED <<open, layout, live_volume, out, steps, stop_since>>

\* the session ends: the controller plugin calls Midi.reset; the next
\* session may show another layout
SessionReset ==
    /\ connected
    /\ shift' = reset(shift).shift
    /\ connected' = reset(shift).connected
    /\ layout' \in Layouts
    /\ fx' = <<>>
    /\ last' = [kind |-> "reset", shift |-> shift, out |-> out]
    /\ UNCHANGED <<open, live_volume, out, steps, stop_since>>

\* the MIDI output port is opened or closed (by the Midi plugin)
OutputOpen ==
    /\ ~open
    /\ open' = TRUE
    /\ fx' = <<>>
    /\ last' = [kind |-> "open", shift |-> shift, out |-> out]
    /\ UNCHANGED <<shift, layout, live_volume, out, steps, connected,
                   stop_since>>

OutputClose ==
    /\ open
    /\ open' = FALSE
    /\ fx' = <<>>
    /\ last' = [kind |-> "close", shift |-> shift, out |-> out]
    /\ UNCHANGED <<shift, layout, live_volume, out, steps, connected,
                   stop_since>>

Next ==
    \/ NewMessage
    \/ CueStatusChanged
    \/ SessionInit
    \/ SessionReset
    \/ OutputOpen
    \/ OutputClose

Spec == Init /\ [][Next]_vars

\* the same engine with an output that is open and stays open
InitOpen == Init /\ open = TRUE

NextOpen ==
    \/ NewMessage
    \/ CueStatusChanged
    \/ SessionInit
    \/ SessionReset

SpecOpen == InitOpen /\ [][NextOpen]_vars

TypeOK ==
    /\ shift \in BOOLEAN
    /\ open \in BOOLEAN
    /\ layout \in Layouts
    /\ live_volume \in [CueIds -> Values \cup {127}]
    /\ steps \in 0..MaxSteps
    /\ connected \in BOOLEAN
    /\ stop_since \in BOOLEAN

(***************************************************************************)
(* Vocabulary of the properties.                                           *)
(***************************************************************************)
\* the handler that ran last was Midi.__new_message
Handled == last.kind = "message"

IsNote(m, type, note) == m.type = type /\ m.note = note

\* the last handler was given this kind of note message
HandledNote(type, note) == Handled /\ IsNote(last.message, type, note)

\* the effects of one kind, in order
RECURSIVE OfKind(_, _)
OfKind(effects, kind) ==
    IF effects = <<>> THEN <<>>
    ELSE IF Head(effects).kind = kind
         THEN <<Head(effects)>> \o OfKind(Tail(effects), kind)
         ELSE OfKind(Tail(effects), kind)

Range(seq) == {seq[i] : i \in 1..Len(seq)}

\* a note_on of channel 0 handed to the output
Feedback(note, velocity) ==
    [type |-> "note_on", channel |-> 0, note |-> note, velocity |-> velocity]

\* the three indicators of the shift layer, lit with one colour
Indicators(velocity) ==
    {Feedback(89, velocity), Feedback(66, velocity), Feedback(67, velocity)}

\* the handler sent exactly these messages, each once, and did nothing else
SentOnly(messages) ==
    /\ Len(fx) = Cardinality(messages)
    /\ OfKind(fx, "send") = fx
    /\ Range(Sent(fx)) = messages
    /\ out = last.out \o Sent(fx)

(***************************************************************************)
(* C1: with shift Inactive and the output open, a NoteOn on the shift      *)
(* control (note 98) sets shift Active and sends exactly three feedback    *)
(* messages of velocity 1, to notes 89, 66 and 67; nothing else is sent    *)
(* and nothing is echoed.                                                  *)
(***************************************************************************)
C1_ShiftPressActivates ==
    (HandledNote("note_on", 98) /\ ~last.shift /\ last.open) =>
        /\ shift = TRUE
        /\ SentOnly(Indicators(1))

C1_Witness ==
    /\ HandledNote("note_on", 98) /\ ~last.shift /\ last.open
    /\ shift /\ Len(out) = 3

(***************************************************************************)
(* C2: with shift Active and the output open, a NoteOff on the shift       *)
(* control sets shift Inactive and sends velocity 0 to notes 89, 66, 67,   *)
(* the same notes that activation lights; nothing is echoed.               *)
(***************************************************************************)
C2_ShiftReleaseDeactivates ==
    (HandledNote("note_off", 98) /\ last.shift /\ last.open) =>
        /\ shift = FALSE
        /\ SentOnly(Indicators(0))
        /\ {m.note : m \in Range(Sent(fx))}
             = {m.note : m \in Range(Sent(enable_shift_mode(FALSE, TRUE).fx))}

C2_Witness ==
    /\ HandledNote("note_off", 98) /\ last.shift /\ last.open
    /\ ~shift /\ Len(fx) = 3

(***************************************************************************)
(* C3, as claimed: a NoteOn on the shift control while shift is Active     *)
(* leaves it Active and sends nothing, a NoteOff while Inactive leaves it  *)
(* Inactive and sends nothing, and two NoteOn on the shift control in a    *)
(* row produce the three indicator messages exactly once.                  *)
(***************************************************************************)
PressAgain ==
    last'.kind = "message" /\ IsNote(last'.message, "note_on", 98) /\ last'.shift

ReleaseAgain ==
    last'.kind = "message" /\ IsNote(last'.message, "note_off", 98)
    /\ ~last'.shift

\* the message before was the NoteOn that activated shift
TwoPresses == HandledNote("note_on", 98) /\ ~last.shift /\ PressAgain

\* what the output received since the first of the two messages
SinceFirst == SubSeq(out', Len(last.out) + 1, Len(out'))

Idempotent ==
    /\ PressAgain => (shift' /\ Sent(fx') = <<>> /\ out' = out)
    /\ ReleaseAgain => (~shift' /\ Sent(fx') = <<>> /\ out' = out)

C3_Original ==
    [][/\ Idempotent
       /\ TwoPresses =>
            (Len(SinceFirst) = 3 /\ Range(SinceFirst) = Indicators(1))]_vars

(***************************************************************************)
(* C3, amended: as above, but the two NoteOn produce the three indicator   *)
(* messages exactly once when the output was open at the first of them,    *)
(* and no message at all when it was closed.                               *)
(***************************************************************************)
C3_IdempotentShift ==
    [][/\ Idempotent
       /\ TwoPresses =>
            IF last.open
            THEN Len(SinceFirst) = 3 /\ Range(SinceFirst) = Indicators(1)
            ELSE SinceFirst = <<>>]_vars

C3_Witness ==
    /\ HandledNote("note_on", 98) /\ last.shift /\ shift
    /\ steps = 2 /\ Len(out) = 3 /\ Sent(fx) = <<>>

(***************************************************************************)
(* C4: while shift is Active a NoteOn on note 89, 66 or 67 is consumed: no *)
(* echo is emitted, so no binding lookup sees it; for 66 and 67 the page   *)
(* action is called exactly when the layout is a cart layout and nothing   *)
(* at all happens otherwise.                                               *)
(***************************************************************************)
C4_ShiftLayerConsumes ==
    (Handled /\ last.shift /\ last.message.type = "note_on"
        /\ last.message.note \in {89, 66, 67}) =>
        /\ OfKind(fx, "emit") = <<>>
        /\ shift = last.shift
        /\ last.message.note = 66 =>
             fx = IF layout = "CartLayout"
                  THEN <<[kind |-> "call", name |-> "select_previous_page"]>>
                  ELSE <<>>
        /\ last.message.note = 67 =>
             fx = IF layout = "CartLayout"
                  THEN <<[kind |-> "call", name |-> "select_next_page"]>>
                  ELSE <<>>

C4_Witness ==
    /\ HandledNote("note_on", 66) /\ last.shift
    /\ layout = "ListLayout" /\ fx = <<>>

(***************************************************************************)
(* C5, as claimed: with shift Active, a NoteOn on note 89 calls stop_all   *)
(* once and then sends one message of velocity 2 to note 89, and leaves    *)
(* shift Active.                                                           *)
(***************************************************************************)
StopAllThenBlink ==
    fx = <<[kind |-> "call", name |-> "stop_all"],
           [kind |-> "send", msg |-> Feedback(89, 2)]>>

C5_Original ==
    (HandledNote("note_on", 89) /\ last.shift) =>
        (StopAllThenBlink /\ shift = TRUE)

(***************************************************************************)
(* C5, amended: the same when the output is open; when it is closed        *)
(* stop_all is still called once and no message is sent.                   *)
(***************************************************************************)
C5_StopAllThenBlink ==
    (HandledNote("note_on", 89) /\ last.shift) =>
        /\ shift = TRUE
        /\ IF last.open
           THEN StopAllThenBlink /\ out = Append(last.out, Feedback(89, 2))
           ELSE fx = <<[kind |-> "call", name |-> "stop_all"]>>
                /\ out = last.out

C5_Witness ==
    /\ HandledNote("note_on", 89) /\ last.shift /\ last.open
    /\ Len(fx) = 2 /\ shift

(***************************************************************************)
(* C6, as claimed: while shift is Active, every message other than NoteOff *)
(* on note 98 and NoteOn on notes 89, 66, 67 has the effects it would have *)
(* with shift Inactive and leaves the shift state alone.                   *)
(***************************************************************************)
ShiftLayerCommand(m) == m.type = "note_on" /\ m.note \in {89, 66, 67}

AsWhenInactive ==
    /\ shift = last.shift
    /\ fx = new_message(last.message, FALSE, last.open, layout).fx

C6_Original ==
    (Handled /\ last.shift
        /\ ~IsNote(last.message, "note_off", 98)
        /\ ~ShiftLayerCommand(last.message)) => AsWhenInactive

(***************************************************************************)
(* C6, amended: the same for every message other than NoteOn and NoteOff   *)
(* on note 98 and NoteOn on notes 89, 66, 67 (a NoteOn on note 98 is       *)
(* echoed while Active and activates shift while Inactive); NoteOff on 89, *)
(* 66, 67 and NoteOn on any other note are echoed once.                    *)
(***************************************************************************)
C6_ShiftLayerAdditive ==
    (Handled /\ last.shift
        /\ ~IsNote(last.message, "note_off", 98)
        /\ ~IsNote(last.message, "note_on", 98)
        /\ ~ShiftLayerCommand(last.message)) =>
        /\ AsWhenInactive
        /\ last.message.type \in {"note_on", "note_off"} =>
             (Len(fx) = 1 /\ fx[1].kind = "emit")

C6_Witness ==
    /\ HandledNote("note_off", 89) /\ last.shift /\ shift
    /\ Len(fx) = 1 /\ fx[1].kind = "emit"

(***************************************************************************)
(* C7: every echo of a message that has a velocity carries velocity 0 and  *)
(* the type, channel and note of the message, whatever the shift state.    *)
(***************************************************************************)
C7_EchoVelocityZero ==
    (Handled /\ hasattr(last.message, "velocity")) =>
        \A e \in Range(OfKind(fx, "emit")) :
            /\ e.text[1] = last.message.type
            /\ e.text[3] = last.message.channel
            /\ e.text[5] = last.message.note
            /\ e.text[7] = 0

C7_Witness ==
    /\ Handled /\ hasattr(last.message, "velocity") /\ last.shift
    /\ last.message.velocity = 100 /\ last.message.channel = 1
    /\ OfKind(fx, "emit") # <<>>

(***************************************************************************)
(* C8, as claimed: every handled message is echoed.                        *)
(***************************************************************************)
EchoedOnce ==
    /\ Len(OfKind(fx, "emit")) = 1
    /\ fx[Len(fx)].kind = "emit"
    /\ fx[Len(fx)].text[1] = last.message.type
    /\ fx[Len(fx)].text[3] = last.message.channel

C8_Original == Handled => EchoedOnce

(***************************************************************************)
(* C8, amended: a handled message is echoed once, as the last effect of    *)
(* its handling, unless an earlier step consumed it: the NoteOn on note 98 *)
(* that activates shift, the NoteOff on note 98 that deactivates it, a     *)
(* NoteOn on 89, 66 or 67 while shift is Active, and a ControlChange on    *)
(* control 56 are not echoed.                                              *)
(***************************************************************************)
ConsumedBefore(m, sh) ==
    \/ ~sh /\ IsNote(m, "note_on", 98)
    \/ sh /\ IsNote(m, "note_off", 98)
    \/ sh /\ ShiftLayerCommand(m)
    \/ m.type = "control_change" /\ m.control = 56

C8_EchoUnlessConsumed ==
    Handled =>
        IF ConsumedBefore(last.message, last.shift)
        THEN OfKind(fx, "emit") = <<>>
        ELSE EchoedOnce

C8_Witness ==
    /\ Handled /\ last.message.type = "program_change"
    /\ Len(fx) = 1 /\ fx[1].kind = "emit"

(***************************************************************************)
(* C9: a ControlChange on control 56 does nothing in any state: no volume  *)
(* update, no echo, no feedback, no change of the shift state.             *)
(***************************************************************************)
C9_MasterFaderNoOp ==
    (Handled /\ last.message.type = "control_change"
        /\ last.message.control = 56) =>
        /\ fx = <<>>
        /\ shift = last.shift
        /\ live_volume = last.live_volume
        /\ out = last.out

C9_Witness ==
    /\ Handled /\ last.message.type = "control_change"
    /\ last.message.control = 56 /\ last.message.value = 0
    /\ layout = "CartLayout" /\ last.shift /\ fx = <<>>

(***************************************************************************)
(* C10, as claimed: ControlChange(control=56, value=127) with a layout     *)
(* that is no cart layout updates no volume and is echoed.                 *)
(***************************************************************************)
FaderAtFull(control) ==
    /\ Handled /\ last.message.type = "control_change"
    /\ last.message.control = control /\ last.message.value = 127
    /\ layout # "CartLayout"

NoVolumeUpdate ==
    OfKind(fx, "live_volume") = <<>> /\ live_volume = last.live_volume

C10_Original == FaderAtFull(56) => (NoVolumeUpdate /\ EchoedOnce)

(***************************************************************************)
(* C10, amended: ControlChange(control=56, value=127) with a layout that   *)
(* is no cart layout updates no volume and is not echoed (control 56 is    *)
(* the master fader); lookup and echo proceed for the other fader controls *)
(* (48 to 55), which update no volume either.                              *)
(***************************************************************************)
C10_FaderWithoutCart ==
    /\ FaderAtFull(56) => (NoVolumeUpdate /\ OfKind(fx, "emit") = <<>>)
    /\ \A control \in 48..55 :
           FaderAtFull(control) => (NoVolumeUpdate /\ EchoedOnce)

C10_Witness ==
    /\ FaderAtFull(56) /\ fx = <<>> /\ live_volume = last.live_volume

(***************************************************************************)
(* Vocabulary of the properties on keys, cue events and sessions.          *)
(***************************************************************************)
Echoes(effects) == OfKind(effects, "emit")

Identifier(m) ==
    CASE m.type \in {"note_on", "note_off"} -> m.note
      [] m.type = "control_change" -> m.control
      [] OTHER -> m.program

SameKeyFields(m1, m2) ==
    /\ m1.type = m2.type
    /\ m1.channel = m2.channel
    /\ Identifier(m1) = Identifier(m2)

\* two messages in a row reached the echo and agree on type, channel and
\* identifier
TwoEchoed ==
    /\ Handled /\ last'.kind = "message" /\ steps' = steps + 1
    /\ Echoes(fx) # <<>> /\ Echoes(fx') # <<>>
    /\ SameKeyFields(last.message, last'.message)

\* the handler that ran last was Midi.__cue_status_changed
CueHandled == last.kind = "cue"

\* the effects that are no message to the output
RECURSIVE NonSend(_)
NonSend(effects) ==
    IF effects = <<>> THEN <<>>
    ELSE IF Head(effects).kind = "send"
         THEN NonSend(Tail(effects))
         ELSE <<Head(effects)>> \o NonSend(Tail(effects))

(***************************************************************************)
(* C11, as claimed: two messages that reach the echo and agree on type,    *)
(* channel and identifier produce the same key, whatever their velocity or *)
(* value.                                                                  *)
(***************************************************************************)
C11_Original == [][TwoEchoed => Echoes(fx') = Echoes(fx)]_vars

(***************************************************************************)
(* C11, amended: the key depends on type, channel and note only for the    *)
(* messages that have a velocity; a control_change keeps its value in the  *)
(* key, so two of them with the same control give the same key exactly     *)
(* when their values are equal.                                            *)
(***************************************************************************)
C11_KeyDropsVelocityOnly ==
    [][TwoEchoed =>
         IF last.message.type = "control_change"
         THEN (Echoes(fx') = Echoes(fx))
                  <=> (last'.message.value = last.message.value)
         ELSE Echoes(fx') = Echoes(fx)]_vars

C11_Witness ==
    /\ HandledNote("note_on", 40) /\ last.message.velocity = 100
    /\ last.message.channel = 0 /\ steps = 2
    /\ Echoes(fx) = <<[kind |-> "emit",
                       text |-> <<"note_on", "channel", 0, "note", 40,
                                  "velocity", 0, "time", 0>>]>>

(***************************************************************************)
(* C12, as claimed: on a cue-state change with the output open, every      *)
(* "midi" entry of the cue whose note is in 0..63 gets exactly one message *)
(* when the state has a Running, Paused or Stopped flag, coloured 1 for    *)
(* Running, else 2 for Paused, else 5 for Stopped; the other entries and   *)
(* the other states get no message.                                        *)
(***************************************************************************)
ClaimedColour(state) ==
    IF "IsRunning" \in state THEN 1
    ELSE IF "IsPaused" \in state THEN 2 ELSE 5

HasNote(key) == Len(key) = 9 /\ key[4] = "note"

RECURSIVE ClaimedFeedback(_, _)
ClaimedFeedback(entries, state) ==
    IF entries = <<>> THEN <<>>
    ELSE LET key == Head(entries)[1]
         IN (IF HasNote(key) /\ key[5] \in 0..63 /\ state # {}
             THEN <<Feedback(key[5], ClaimedColour(state))>>
             ELSE <<>>)
            \o ClaimedFeedback(Tail(entries), state)

C12_Claim ==
    (CueHandled /\ last.open) =>
        Sent(fx) = ClaimedFeedback(CueController[last.cue], last.state)

(***************************************************************************)
(* C13: with the output closed a feedback message is dropped: nothing is   *)
(* sent, nothing is sent later when the output opens again, no error is    *)
(* raised for it, and everything else the handler does (the shift          *)
(* transition, stop_all, the page action, the echo) is what it does with   *)
(* the output open.                                                        *)
(***************************************************************************)
C13_ClosedOutputDrops ==
    /\ (Handled /\ ~last.open) =>
           LET r == new_message(last.message, last.shift, TRUE, layout)
           IN /\ Sent(fx) = <<>> /\ out = last.out
              /\ shift = r.shift
              /\ fx = NonSend(r.fx)
              /\ OfKind(fx, "raise") = <<>>
    /\ (CueHandled /\ ~last.open) =>
           /\ Sent(fx) = <<>> /\ out = last.out
           /\ fx = NonSend(cue_status_changed(CueController[last.cue],
                                              last.state, TRUE))
    /\ last.kind = "open" => (fx = <<>> /\ out = last.out)

C13_Witness ==
    /\ HandledNote("note_on", 98) /\ ~last.shift /\ ~last.open
    /\ shift /\ fx = <<>> /\ out = <<>>

(***************************************************************************)
(* C14, as claimed: reset() followed by init() leaves shift Inactive.      *)
(***************************************************************************)
Restarted == last.kind = "init" /\ last.prior = "reset"

C14_Original == Restarted => ~shift

(***************************************************************************)
(* C14, amended: shift is Inactive when the engine is constructed, and     *)
(* neither reset() nor init() changes it: when it was Active before them   *)
(* it is Active after them.                                                *)
(***************************************************************************)
C14_SessionKeepsShift ==
    /\ steps = 0 => ~shift
    /\ last.kind \in {"init", "reset"} => shift = last.shift

C14_Witness == Restarted /\ last.shift /\ shift

(***************************************************************************)
(* C15, as claimed: the code sent to a control is the colour mapped for    *)
(* that control: unchanged inside 0..63, and outside it 0 for Off and      *)
(* (code mod 3) + 1 otherwise, a value in {1, 2} that is 1 for the codes   *)
(* 1, 3, 5 and 2 for the codes 2, 4, 6.                                    *)
(***************************************************************************)
\* the colour the handler that ran last asks for
Requested ==
    IF CueHandled THEN ClaimedColour(last.state)
    ELSE IF HandledNote("note_on", 98) THEN ApcSideButtonColor.On
    ELSE IF HandledNote("note_off", 98) THEN ApcSideButtonColor.Off
    ELSE ApcSideButtonColor.Blink

ClaimedTable == [c \in 1..6 |-> IF c \in {1, 3, 5} THEN 1 ELSE 2]

C15_Original ==
    \A m \in Range(Sent(fx)) :
        /\ m.velocity = mapColor(m.note, Requested)
        /\ (m.note \in 0..63) => mapColor(m.note, Requested) = Requested
        /\ (m.note \notin 0..63 /\ Requested = 0) =>
               mapColor(m.note, Requested) = 0
        /\ (m.note \notin 0..63 /\ Requested # 0) =>
               /\ mapColor(m.note, Requested) \in {1, 2}
               /\ mapColor(m.note, Requested) = ClaimedTable[Requested]

(***************************************************************************)
(* C15, amended: the code sent is the code the handler asks for, for every *)
(* control; no colour is folded.  Inside 0..63 it is a code of the push    *)
(* button table (1, 2 or 5), outside it a code of the side button table:   *)
(* 0 for Off, 1 for On, 2 for Blink.                                       *)
(***************************************************************************)
C15_CodesSentAsAsked ==
    \A m \in Range(Sent(fx)) :
        /\ m.velocity = Requested
        /\ (m.note \in 0..63) => m.velocity \in {1, 2, 5}
        /\ (m.note \notin 0..63) => m.velocity \in {0, 1, 2}

C15_Witness ==
    /\ HandledNote("note_on", 98) /\ ~last.shift /\ last.open
    /\ Sent(fx) = <<Feedback(89, 1), Feedback(66, 1), Feedback(67, 1)>>

(***************************************************************************)
(* C16, as claimed: an entry whose key does not parse or has no note is    *)
(* skipped on its own, when the binding list is loaded and when a cue's    *)
(* bindings are scanned on a cue-state change: no error leaves the handler *)
(* and the note entries after it still get their feedback.                 *)
(***************************************************************************)
Parsable(entries) ==
    {i \in 1..Len(entries) : can_parse(entries[i][1])}

C16_Claim ==
    /\ \A c \in CueIds :
           Len(loadSettings(CueController[c]))
               = Cardinality(Parsable(CueController[c]))
    /\ CueHandled =>
           /\ OfKind(fx, "raise") = <<>>
           /\ last.open =>
                  Range(ClaimedFeedback(CueController[last.cue], last.state))
                      \subseteq Range(Sent(fx))

(***************************************************************************)
(* C17: a ControlChange on a control other than 56 sets the volume of      *)
(* exactly the media cues of column (control - 48) that have a volume      *)
(* element, and only under a cart layout; under any layout the message is  *)
(* echoed once, after the updates.                                         *)
(***************************************************************************)
Targets(control) ==
    {c \in CueIds :
        CueColumn[c] = control - 48 /\ CueIsMedia[c] /\ CueHasVolume[c]}

C17_FaderSetsColumnVolume ==
    (Handled /\ last.message.type = "control_change"
        /\ last.message.control # 56) =>
        LET T == IF layout = "CartLayout"
                 THEN Targets(last.message.control) ELSE {}
        IN /\ Len(OfKind(fx, "live_volume")) = Cardinality(T)
           /\ Range(OfKind(fx, "live_volume"))
                = {[kind |-> "live_volume", cue |-> c,
                    value |-> last.message.value] : c \in T}
           /\ live_volume = [c \in CueIds |->
                                IF c \in T THEN last.message.value
                                ELSE last.live_volume[c]]
           /\ EchoedOnce
           /\ Len(fx) = Cardinality(T) + 1

C17_Witness ==
    /\ Handled /\ last.message.type = "control_change"
    /\ last.message.control = 49 /\ last.message.value = 0
    /\ layout = "CartLayout" /\ last.live_volume["c4"] = 127
    /\ live_volume["c4"] = 0 /\ live_volume["c3"] = 127 /\ Len(fx) = 2

(***************************************************************************)
(* C18: whatever the interleaving of the handlers, the shift flag changes  *)
(* only when a NoteOn on note 98 is handled (Inactive to Active) or a      *)
(* NoteOff on note 98 is handled (Active to Inactive).                     *)
(***************************************************************************)
C18_ShiftChangesOnShiftControlOnly ==
    (last.kind # "none" /\ shift # last.shift) =>
        /\ Handled
        /\ \/ ~last.shift /\ shift /\ IsNote(last.message, "note_on", 98)
           \/ last.shift /\ ~shift /\ IsNote(last.message, "note_off", 98)

C18_Witness ==
    /\ CueHandled /\ last.shift /\ shift /\ stop_since
    /\ Sent(fx) # <<>>

(***************************************************************************)
(* C19: every message handed to the output is a note_on on channel 0,      *)
(* either to note 66, 67 or 89 with velocity 0, 1 or 2, or to a note in    *)
(* 0..63 with velocity 1, 2 or 5; the message handler only sends to 66,    *)
(* 67, 89 and the cue handler only sends to 0..63.                         *)
(***************************************************************************)
C19_OutputShape ==
    /\ \A m \in Range(out) :
           /\ m.type = "note_on" /\ m.channel = 0
           /\ \/ m.note \in {66, 67, 89} /\ m.velocity \in {0, 1, 2}
              \/ m.note \in 0..63 /\ m.velocity \in {1, 2, 5}
    /\ Handled => \A m \in Range(Sent(fx)) : m.note \in {66, 67, 89}
    /\ CueHandled => \A m \in Range(Sent(fx)) : m.note \in 0..63

C19_Witness ==
    /\ CueHandled /\ last.cue = "c3" /\ last.state = {"IsPaused"}
    /\ Sent(fx) = <<Feedback(63, 2), Feedback(0, 2)>>
    /\ Len(last.out) = 3 /\ last.out[1].note = 89

(***************************************************************************)
(* C20: with an output that stays open, the colour sent last to the shift  *)
(* indicators agrees with the shift flag: Inactive, the last message to    *)
(* each of 66, 67, 89 is Off or there is none; Active, the last to 66 and  *)
(* 67 is On and the last to 89 is Blink if stop_all was called since the   *)
(* activation and On if not.                                               *)
(***************************************************************************)
\* the velocity of the last message sent to the note, -1 if there is none
LastSent(note) ==
    LET at == {i \in 1..Len(out) : out[i].note = note}
    IN IF at = {} THEN -1
       ELSE out[CHOOSE i \in at : \A j \in at : j <= i].velocity

C20_IndicatorsFollowShift ==
    /\ ~shift => \A n \in {66, 67, 89} : LastSent(n) \in {-1, 0}
    /\ shift =>
           /\ LastSent(66) = 1 /\ LastSent(67) = 1
           /\ LastSent(89) = IF stop_since THEN 2 ELSE 1

C20_Witness ==
    /\ shift /\ stop_since /\ LastSent(89) = 2 /\ LastSent(66) = 1
    /\ CueHandled /\ Sent(fx) # <<>>

====
